---------------------------- MODULE Spec2Model ----------------------------
(***************************************************************************)
(* A model of the naive GEMM kernel (gemm_kernel), of the harness that     *)
(* drives it (test_gemm / run_gemm) and of the build-and-run drivers.      *)
(*                                                                         *)
(* A float is modelled by an integer: the kernel's float arithmetic is     *)
(* exact on the small whole numbers used here.  Three integers out of      *)
(* their reach stand for +infinity, -infinity and NaN, with IEEE 754's     *)
(* rules for them.  A device buffer is a function from 0 .. len-1 to its   *)
(* elements, indexed as the C code indexes the pointer.                    *)
(***************************************************************************)
EXTENDS Integers, Sequences, FiniteSets, TLC

(* ------------------------------ bounds -------------------------------- *)

\* m, n and k of a modelled launch range over 1 .. MaxDim.
MaxDim == 2
\* alpha and beta range over 0 .. MaxScalar.
MaxScalar == 2
\* The contents of B and C are generated from the seeds 1 .. MaxSeed, those of
\* A from 0 .. MaxSeed (seed 0 puts +infinity in A[0]).
MaxSeed == 2
\* Buffer elements are reduced modulo ValMod.
ValMod == 7
\* Edge of the (square) thread block of a launch with free parameters.
BlockDim == 2
\* What a read past the end of a buffer may return: 0 .. MaxGarbage.
MaxGarbage == 1

Dims == 1 .. MaxDim
Scalars == 0 .. MaxScalar
Seeds == 1 .. MaxSeed
Garbage == 0 .. MaxGarbage

(* ------------------------------- floats ------------------------------- *)

\* +infinity, -infinity and NaN.
Inf == 1000 * 1000
NegInf == -Inf
NaN == 2 * Inf

Finite(x) == x \notin {Inf, NegInf, NaN}

\* x * y on floats: NaN if either is NaN, or if one is infinite and the other 0.
FMul(x, y) ==
    IF x = NaN \/ y = NaN THEN NaN
    ELSE IF Finite(x) /\ Finite(y) THEN x * y
    ELSE IF x = 0 \/ y = 0 THEN NaN
    ELSE IF (x > 0) = (y > 0) THEN Inf ELSE NegInf

\* x + y on floats: NaN if either is NaN, or for infinities of opposite signs.
FAdd(x, y) ==
    IF x = NaN \/ y = NaN THEN NaN
    ELSE IF Finite(x) /\ Finite(y) THEN x + y
    ELSE IF Finite(x) THEN y
    ELSE IF Finite(y) \/ x = y THEN x
    ELSE NaN

(* ------------------------------ buffers ------------------------------- *)

\* Element i of the buffer generated from seed s.
Pattern(s, i) == IF s = 0 /\ i = 0 THEN Inf ELSE ((i + 1) * (i + s)) % ValMod

\* A buffer of len elements generated from seed s.
Fill(s, len) == [i \in 0 .. len - 1 |-> Pattern(s, i)]

\* A buffer of len zeros.
Zeros(len) == [i \in 0 .. len - 1 |-> 0]

\* The row-major buffer of a matrix given as a sequence of rows.
Flat(rows, cols) ==
    [i \in 0 .. Len(rows) * cols - 1 |-> rows[(i \div cols) + 1][(i % cols) + 1]]

\* The values a read of buf[i] may return: the element, or anything when i is
\* past the end of the buffer (undefined behaviour).
Load(buf, i) == IF i \in DOMAIN buf THEN {buf[i]} ELSE Garbage

\* buf after buf[i] = v.  Every launch modelled gives C at least m*n elements,
\* so the kernel's stores are inside the buffer.
Store(buf, i, v) == IF i \in DOMAIN buf THEN [buf EXCEPT ![i] = v] ELSE buf

(* ------------------------------- state -------------------------------- *)

VARIABLES
    args,       \* the launch's arguments: m, n, k, alpha, beta, transposeA,
                \* transposeB and the caller's buffers A, B, C as passed
    mem,        \* device memory: [A, B, C], the buffers' present contents
    launch,     \* [grid |-> <<x, y>>, block |-> <<x, y>>] once launched
    th,         \* thread -> [pc, sum, q, cold]; a thread is
                \* <<blockIdx.x, blockIdx.y, threadIdx.x, threadIdx.y>>
    rd,         \* thread -> the set of indices of C it has read
    wr,         \* thread -> the sequence of indices of C it has written
    hpc,        \* the harness's position
    cfg,        \* the harness's configuration, 1 .. 4
    Chost,      \* run_gemm's return value, in host units
    diffs,      \* the max differences computed so far
    out,        \* the harness's printed lines
    drv,        \* the driver that is running
    dcall,      \* the entrypoint's position: which build_and_run call
    dpc,        \* the position in build_and_run: the next step
    dstatus,    \* "running", "returned" or "raised"
    derr,       \* the raised exception, or NoErr
    ddone,      \* the external commands run so far, with their exit codes
    dlog        \* the exit codes the driver printed

kvars == <<args, mem, launch, th, rd, wr>>
hvars == <<hpc, cfg, Chost, diffs, out>>
dvars == <<drv, dcall, dpc, dstatus, derr, ddone, dlog>>
vars == <<args, mem, launch, th, rd, wr, hpc, cfg, Chost, diffs, out,
          drv, dcall, dpc, dstatus, derr, ddone, dlog>>

NoLaunch == [grid |-> <<0, 0>>, block |-> <<0, 0>>]
NoErr == [type |-> "none", rc |-> 0]

(* ------------------------------ gemm_kernel --------------------------- *)

\* The threads of a launch.
Threads(l) ==
    (0 .. l.grid[1] - 1) \X (0 .. l.grid[2] - 1)
        \X (0 .. l.block[1] - 1) \X (0 .. l.block[2] - 1)

\* int row = blockIdx.y * blockDim.y + threadIdx.y;
Row(t) == t[2] * launch.block[2] + t[4]

\* int col = blockIdx.x * blockDim.x + threadIdx.x;
Col(t) == t[1] * launch.block[1] + t[3]

\* Mutant of InRange: the test of col is missing.
InRangeRowOnly(row, col) == row < args.m

\* if (row < m && col < n)
InRange(row, col) == row < args.m /\ col < args.n

\* Mutant of AIndex: transposeA is ignored.
AIndexNoTranspose(row, q) == row * args.k + q

\* The index of A read at step q: A[q * m + row] or A[row * k + q].
AIndex(row, q) == IF args.tA THEN q * args.m + row ELSE row * args.k + q

\* Mutant of BIndex: the flag's two cases are exchanged.
BIndexSwapped(col, q) == IF args.tB THEN q * args.n + col ELSE col * args.k + q

\* The index of B read at step q: B[col * k + q] or B[q * n + col].
BIndex(col, q) == IF args.tB THEN col * args.k + q ELSE q * args.n + col

\* Mutants of CIndex: the row's stride is missing, or k instead of n.
CIndexNoStride(row, col) == row + col
CIndexStrideK(row, col) == row * args.k + col

\* The index of C read and written: C[row * n + col].
CIndex(row, col) == row * args.n + col

\* Mutant of Result: sum is not scaled by alpha.
ResultNoAlpha(sum, cold) == FAdd(sum, FMul(args.beta, cold))

\* The value stored: alpha * sum + beta * C[row * n + col].
Result(sum, cold) == FAdd(FMul(args.alpha, sum), FMul(args.beta, cold))

Thread0 == [pc |-> "start", sum |-> 0, q |-> 0, cold |-> 0]

\* The thread computes row and col and tests them: in range it starts the
\* loop with sum = 0, out of range it returns.
KernelEnter(t) ==
    /\ t \in DOMAIN th
    /\ th[t].pc = "start"
    /\ th' = [th EXCEPT ![t].pc =
                 IF InRange(Row(t), Col(t)) THEN "loop" ELSE "done"]
    /\ UNCHANGED <<args, mem, launch, rd, wr, hvars, dvars>>

\* One iteration of the loop: sum += a_val * b_val.
KernelLoop(t) ==
    /\ t \in DOMAIN th
    /\ th[t].pc = "loop"
    /\ th[t].q < args.k
    /\ \E a \in Load(mem.A, AIndex(Row(t), th[t].q)) :
       \E b \in Load(mem.B, BIndex(Col(t), th[t].q)) :
          th' = [th EXCEPT ![t].sum = FAdd(@, FMul(a, b)), ![t].q = @ + 1]
    /\ UNCHANGED <<args, mem, launch, rd, wr, hvars, dvars>>

\* After the loop, the right-hand side's read of C[row * n + col].
KernelLoadC(t) ==
    /\ t \in DOMAIN th
    /\ th[t].pc = "loop"
    /\ ~(th[t].q < args.k)
    /\ \E c \in Load(mem.C, CIndex(Row(t), Col(t))) :
          th' = [th EXCEPT ![t].cold = c, ![t].pc = "store"]
    /\ rd' = [rd EXCEPT ![t] = @ \cup {CIndex(Row(t), Col(t))}]
    /\ UNCHANGED <<args, mem, launch, wr, hvars, dvars>>

\* The assignment to C[row * n + col].
KernelStore(t) ==
    /\ t \in DOMAIN th
    /\ th[t].pc = "store"
    /\ mem' = [mem EXCEPT !.C = Store(@, CIndex(Row(t), Col(t)),
                                      Result(th[t].sum, th[t].cold))]
    /\ wr' = [wr EXCEPT ![t] = Append(@, CIndex(Row(t), Col(t)))]
    /\ th' = [th EXCEPT ![t].pc = "done"]
    /\ UNCHANGED <<args, launch, rd, hvars, dvars>>

Launched == launch # NoLaunch
AllDone == Launched /\ \A t \in DOMAIN th : th[t].pc = "done"

(* ------------------------------- run_gemm ----------------------------- *)

\* grid = ((n + block[0] - 1) // block[0], (m + block[1] - 1) // block[1])
GridFor(m, n, block) ==
    <<(n + block[1] - 1) \div block[1], (m + block[2] - 1) \div block[2]>>

\* The kernel call: the threads of the grid start.  Nothing is compared with
\* the buffers' lengths before it.
StartKernel(block) ==
    /\ launch' = [grid |-> GridFor(args.m, args.n, block), block |-> block]
    /\ th' = [t \in Threads(launch') |-> Thread0]
    /\ rd' = [t \in Threads(launch') |-> {}]
    /\ wr' = [t \in Threads(launch') |-> <<>>]

\* A launch with the arguments and buffers chosen by Init.
KernelLaunch ==
    /\ ~Launched
    /\ StartKernel(<<BlockDim, BlockDim>>)
    /\ UNCHANGED <<args, mem, hvars, dvars>>


(* ------------------- gemm_kernel, one task at a time ------------------ *)

\* The value of a read inside the buffer.
LoadOne(buf, i) == CHOOSE v \in Load(buf, i) : TRUE

\* sum after q iterations of the loop of the task at (row, col).
RECURSIVE SumTo(_, _, _)
SumTo(row, col, q) ==
    IF q = 0 THEN 0
    ELSE FAdd(SumTo(row, col, q - 1),
              FMul(LoadOne(mem.A, AIndex(row, q - 1)), LoadOne(mem.B, BIndex(col, q - 1))))

\* C after the whole task at (row, col) runs on C = buf.
RunTask(buf, row, col) ==
    IF InRange(row, col)
      THEN Store(buf, CIndex(row, col),
                 Result(SumTo(row, col, args.k), LoadOne(buf, CIndex(row, col))))
      ELSE buf

\* C after the tasks j, j+1, ... of the grid run one after the other, row by
\* row, on C = buf.
RECURSIVE RunFrom(_, _)
RunFrom(buf, j) ==
    LET rows == launch.grid[2] * launch.block[2]
        cols == launch.grid[1] * launch.block[1]
    IN  IF j >= rows * cols THEN buf
        ELSE RunFrom(RunTask(buf, j \div cols, j % cols), j + 1)

(* ------------------------------ test_gemm ----------------------------- *)

\* The harness's tolerance, 1e-4, in host units: a host unit is 1e-4 / Tol, so
\* that differences below, at and above the tolerance are all represented.
Tol == 2

\* Host units in 1.0.
UnitsPerOne == 10000 * Tol

\* A device value read back on the host, in host units.
ToHost(x) == x * UnitsPerOne

\* Edge of run_gemm's thread block.  The source's block = (16, 16) is scaled
\* down; the block stays larger than the 2x2 output, so that most of its
\* threads are out of range, as in the source.
HarnessBlock == 3

\* A_host and B_host.
A_host == <<<<1, 2>>, <<3, 4>>>>
B_host == <<<<5, 6>>, <<7, 8>>>>

\* The four calls run_gemm(transA, transB), in the order test_gemm makes them.
Configs == <<<<FALSE, FALSE>>, <<TRUE, FALSE>>, <<FALSE, TRUE>>, <<TRUE, TRUE>>>>

\* expected_AB, expected_ATB, expected_ABT, expected_ATBT.
Expected ==
    <<<<<<19, 22>>, <<43, 50>>>>,
      <<<<26, 30>>, <<38, 44>>>>,
      <<<<17, 23>>, <<39, 53>>>>,
      <<<<23, 31>>, <<34, 46>>>>>>

\* The expected matrix of configuration c as a host buffer.
ExpectedHost(c) == [i \in 0 .. 3 |-> ToHost(Flat(Expected[c], 2)[i])]

Abs(x) == IF x < 0 THEN -x ELSE x

\* np.abs(C - expected).max()
MaxAbsDiff(X, E) ==
    LET D == {Abs(X[i] - E[i]) : i \in DOMAIN E}
    IN  CHOOSE d \in D : \A e \in D : e <= d

\* Mutant of AllBelow: a difference equal to the tolerance passes.
AllBelowOrEqual(ds) == \A i \in 1 .. Len(ds) : ds[i] <= Tol

\* all(d < 1e-4 for d in [diff_ab, diff_atb, diff_abt, diff_atbt])
AllBelow(ds) == \A i \in 1 .. Len(ds) : ds[i] < Tol

\* m = n = k = 2, alpha = 1.0, beta = 0.0, A and B on the device.
HarnessArgs ==
    [m |-> 2, n |-> 2, k |-> 2, alpha |-> 1, beta |-> 0,
     tA |-> FALSE, tB |-> FALSE,
     A |-> Flat(A_host, 2), B |-> Flat(B_host, 2), C |-> <<>>]

\* run_gemm up to the kernel call: C_out is zeroed and the kernel is launched
\* with the configuration's two flags; the call returns at once.
RunGemmLaunch ==
    /\ hpc = "run"
    /\ args' = [args EXCEPT !.tA = Configs[cfg][1], !.tB = Configs[cfg][2],
                            !.C = Zeros(args.m * args.n)]
    /\ mem' = [mem EXCEPT !.C = Zeros(args.m * args.n)]
    /\ StartKernel(<<HarnessBlock, HarnessBlock>>)
    /\ hpc' = "sync"
    /\ UNCHANGED <<cfg, Chost, diffs, out, dvars>>

\* Mutant of StreamIdle: the harness does not wait.
StreamNotAwaited == TRUE

\* What cp.cuda.Stream.null.synchronize() waits for: every thread of the
\* launch has returned.
StreamIdle == \A t \in DOMAIN th : th[t].pc = "done"

\* cp.cuda.Stream.null.synchronize()
Synchronize ==
    /\ hpc = "sync"
    /\ StreamIdle
    /\ hpc' = "get"
    /\ UNCHANGED <<kvars, cfg, Chost, diffs, out, dvars>>

\* return C_out.get()
GetResult ==
    /\ hpc = "get"
    /\ Chost' = [i \in DOMAIN mem.C |-> ToHost(mem.C[i])]
    /\ hpc' = "compare"
    /\ UNCHANGED <<kvars, cfg, diffs, out, dvars>>

\* run_gemm as test_gemm sees it: it returns an m x n matrix.  Here the matrix
\* is any one within MaxDev host units of the expected one, element by element.
MaxDev == 3
RunGemmAny ==
    /\ hpc = "run"
    /\ \E dev \in [0 .. 3 -> -MaxDev .. MaxDev] :
          Chost' = [i \in 0 .. 3 |-> ExpectedHost(cfg)[i] + dev[i]]
    /\ hpc' = "compare"
    /\ UNCHANGED <<kvars, cfg, diffs, out, dvars>>

\* The lines printed for one configuration, and its max difference.
PrintConfig(c, d) ==
    <<[line |-> "output", cfg |-> c, val |-> 0],
      [line |-> "expected", cfg |-> c, val |-> 0],
      [line |-> "maxdiff", cfg |-> c, val |-> d]>>

\* After a call of run_gemm: the output and the expected matrix are printed,
\* the max difference is computed and printed, and the next call follows.
\* The matrix returned is not used again.
Compare ==
    /\ hpc = "compare"
    /\ LET d == MaxAbsDiff(Chost, ExpectedHost(cfg))
       IN  /\ diffs' = Append(diffs, d)
           /\ out' = out \o PrintConfig(cfg, d)
    /\ Chost' = <<>>
    /\ IF cfg < Len(Configs)
         THEN cfg' = cfg + 1 /\ hpc' = "run"
         ELSE cfg' = cfg /\ hpc' = "summary"
    /\ UNCHANGED <<kvars, dvars>>

\* The summary: one line, passed or failed.
Summarize ==
    /\ hpc = "summary"
    /\ out' = Append(out, [line |-> "summary", cfg |-> 0,
                           val |-> IF AllBelow(diffs) THEN 1 ELSE 0])
    /\ hpc' = "end"
    /\ UNCHANGED <<kvars, cfg, Chost, diffs, dvars>>

(* --------------------------- build_and_run ---------------------------- *)

\* An external command may exit with 0 .. MaxRc.
MaxRc == 2

\* The external commands of cuda-mmm's build_and_run, in order, each with the
\* way its exit code is handled: "check" (check_call, or run with check=True)
\* raises CalledProcessError on a non-zero code, "nocheck" (run with
\* check=False) drops the code, "report" (call) hands the code to the driver.
SgemmSteps ==
    <<[cmd |-> "nvidia-smi", mode |-> "check"],
      [cmd |-> "rm", mode |-> "check"],
      [cmd |-> "configure", mode |-> "check"],
      [cmd |-> "build", mode |-> "check"]>>
    \o [a \in 1 .. 2 |-> [cmd |-> "smoke", mode |-> "nocheck"]]
    \o [a \in 1 .. 7 |-> [cmd |-> "main", mode |-> "nocheck"]]

\* flashattn2_assign's and flashattn_cute_assign's build_and_run.
FlashSteps ==
    <<[cmd |-> "build", mode |-> "check"],
      [cmd |-> "run", mode |-> "report"]>>

\* Mutant of NaiveSteps: the run's exit code is not checked.
NaiveStepsRunUnchecked ==
    <<[cmd |-> "configure", mode |-> "check"],
      [cmd |-> "build", mode |-> "check"],
      [cmd |-> "run", mode |-> "nocheck"]>>

\* The naive GEMM's build_and_run.
NaiveSteps ==
    <<[cmd |-> "configure", mode |-> "check"],
      [cmd |-> "build", mode |-> "check"],
      [cmd |-> "run", mode |-> "check"]>>

Drivers == {"cuda-mmm", "flashattn2", "flashattn_cute", "naive_gemm"}

Steps(d) ==
    CASE d = "cuda-mmm" -> SgemmSteps
      [] d \in {"flashattn2", "flashattn_cute"} -> FlashSteps
      [] OTHER -> NaiveSteps

\* How many times the driver's entrypoint calls build_and_run.
Calls(d) == IF d \in {"flashattn2", "flashattn_cute"} THEN 3 ELSE 1

\* The command that ran, with its exit code.
Ran(rc) == [drv |-> drv, call |-> dcall, step |-> dpc, cmd |-> Steps(drv)[dpc].cmd, rc |-> rc]

AtStep(mode) ==
    /\ dstatus = "running"
    /\ dpc <= Len(Steps(drv))
    /\ Steps(drv)[dpc].mode = mode

\* subprocess.check_call(...), subprocess.run(..., check=True)
CheckCall ==
    /\ AtStep("check")
    /\ \E rc \in 0 .. MaxRc :
          /\ ddone' = Append(ddone, Ran(rc))
          /\ IF rc # 0
               THEN /\ dstatus' = "raised"
                    /\ derr' = [type |-> "CalledProcessError", rc |-> rc]
                    /\ dpc' = dpc
               ELSE /\ dpc' = dpc + 1
                    /\ UNCHANGED <<dstatus, derr>>
    /\ UNCHANGED <<kvars, hvars, drv, dcall, dlog>>

\* subprocess.run(..., check=False)
RunNoCheck ==
    /\ AtStep("nocheck")
    /\ \E rc \in 0 .. MaxRc : ddone' = Append(ddone, Ran(rc))
    /\ dpc' = dpc + 1
    /\ UNCHANGED <<kvars, hvars, drv, dcall, dstatus, derr, dlog>>

\* rc = subprocess.call(...); print(rc); if rc != 0: raise RuntimeError(...)
CallReport ==
    /\ AtStep("report")
    /\ \E rc \in 0 .. MaxRc :
          /\ ddone' = Append(ddone, Ran(rc))
          /\ dlog' = Append(dlog, rc)
          /\ IF rc # 0
               THEN /\ dstatus' = "raised"
                    /\ derr' = [type |-> "RuntimeError", rc |-> rc]
                    /\ dpc' = dpc
               ELSE /\ dpc' = dpc + 1
                    /\ UNCHANGED <<dstatus, derr>>
    /\ UNCHANGED <<kvars, hvars, drv, dcall>>

\* build_and_run returns: the entrypoint makes its next call, or returns.
DriverReturn ==
    /\ dstatus = "running"
    /\ dpc > Len(Steps(drv))
    /\ IF dcall < Calls(drv)
         THEN dcall' = dcall + 1 /\ dpc' = 1 /\ dstatus' = dstatus
         ELSE dstatus' = "returned" /\ UNCHANGED <<dcall, dpc>>
    /\ UNCHANGED <<kvars, hvars, drv, derr, ddone, dlog>>

(* ----------------------------- initial states ------------------------- *)

NoKernel ==
    /\ launch = NoLaunch
    /\ th = <<>>
    /\ rd = <<>>
    /\ wr = <<>>

HarnessIdle ==
    /\ hpc = "idle"
    /\ cfg = 0
    /\ Chost = <<>>
    /\ diffs = <<>>
    /\ out = <<>>

DriverIdle ==
    /\ drv = "none"
    /\ dcall = 0
    /\ dpc = 0
    /\ dstatus = "idle"
    /\ derr = NoErr
    /\ ddone = <<>>
    /\ dlog = <<>>

\* The arguments of a launch: buffers of lengths la, lb and lc.
Args(m, n, k, alpha, beta, tA, tB, sa, sb, sc, la, lb, lc) ==
    [m |-> m, n |-> n, k |-> k, alpha |-> alpha, beta |-> beta,
     tA |-> tA, tB |-> tB,
     A |-> Fill(sa, la), B |-> Fill(sb, lb), C |-> Fill(sc, lc)]

\* The buffers' lengths are those m, n and k declare.
Consistent(a) ==
    /\ DOMAIN a.A = 0 .. a.m * a.k - 1
    /\ DOMAIN a.B = 0 .. a.k * a.n - 1
    /\ DOMAIN a.C = 0 .. a.m * a.n - 1

\* Before a launch whose scalars are drawn from scalars, whose buffers are
\* generated from seedsA (A) and seeds (B, C) and are longer than declared by
\* one of deltas.
KernelInit(scalars, seedsA, seeds, deltas) ==
    /\ \E m \in Dims, n \in Dims, k \in Dims, alpha \in scalars, beta \in scalars,
          tA \in BOOLEAN, tB \in BOOLEAN, sa \in seedsA, sb \in seeds, sc \in seeds,
          d \in deltas :
          args = Args(m, n, k, alpha, beta, tA, tB, sa, sb, sc,
                      m * k + d[1], k * n + d[2], m * n + d[3])
    /\ mem = [A |-> args.A, B |-> args.B, C |-> args.C]
    /\ NoKernel

\* A launch of the kernel on buffers of the declared sizes.
Init ==
    /\ KernelInit(Scalars, {0} \cup Seeds, Seeds, {<<0, 0, 0>>})
    /\ HarnessIdle
    /\ DriverIdle

Next ==
    \/ KernelLaunch
    \/ \E t \in DOMAIN th : KernelEnter(t)
    \/ \E t \in DOMAIN th : KernelLoop(t)
    \/ \E t \in DOMAIN th : KernelLoadC(t)
    \/ \E t \in DOMAIN th : KernelStore(t)

Spec == Init /\ [][Next]_vars

\* A launch on buffers of which one is shorter or longer than declared (C is
\* never shorter: a store past its end has no defined outcome to model).
InitMismatch ==
    /\ KernelInit({1}, {1}, {1},
                  {<<-1, 0, 0>>, <<1, 0, 0>>, <<0, -1, 0>>, <<0, 1, 0>>, <<0, 0, 1>>})
    /\ HarnessIdle
    /\ DriverIdle

SpecMismatch == InitMismatch /\ [][Next]_vars

\* test_gemm, after the kernel is compiled.
InitHarness ==
    /\ args = HarnessArgs
    /\ mem = [A |-> args.A, B |-> args.B, C |-> args.C]
    /\ NoKernel
    /\ hpc = "run"
    /\ cfg = 1
    /\ Chost = <<>>
    /\ diffs = <<>>
    /\ out = <<[line |-> "A", cfg |-> 0, val |-> 0],
               [line |-> "B", cfg |-> 0, val |-> 0]>>
    /\ DriverIdle

NextHarness ==
    \/ RunGemmLaunch
    \/ \E t \in DOMAIN th : KernelEnter(t)
    \/ \E t \in DOMAIN th : KernelLoop(t)
    \/ \E t \in DOMAIN th : KernelLoadC(t)
    \/ \E t \in DOMAIN th : KernelStore(t)
    \/ Synchronize
    \/ GetResult
    \/ Compare
    \/ Summarize

SpecHarness == InitHarness /\ [][NextHarness]_vars

\* test_gemm over every matrix run_gemm may return.
NextReport ==
    \/ RunGemmAny
    \/ Compare
    \/ Summarize

SpecReport == InitHarness /\ [][NextReport]_vars

\* The entrypoint of one of the drivers, before its first build_and_run call.
InitDriver ==
    /\ args = HarnessArgs
    /\ mem = [A |-> args.A, B |-> args.B, C |-> args.C]
    /\ NoKernel
    /\ HarnessIdle
    /\ drv \in Drivers
    /\ dcall = 1
    /\ dpc = 1
    /\ dstatus = "running"
    /\ derr = NoErr
    /\ ddone = <<>>
    /\ dlog = <<>>

NextDriver ==
    \/ CheckCall
    \/ RunNoCheck
    \/ CallReport
    \/ DriverReturn

SpecDriver == InitDriver /\ [][NextDriver]_vars

(* ------------------------------- claims ------------------------------- *)

Range(f) == {f[i] : i \in DOMAIN f}

\* The threads that have written C[i].
Writers(i) == {t \in DOMAIN th : i \in Range(wr[t])}

\* a(q) and b(q) of the task at (row, col), as C = alpha * op(A) * op(B) + beta * C
\* defines them on the caller's buffers.
RefA(row, q) == IF args.tA THEN args.A[q * args.m + row] ELSE args.A[row * args.k + q]
RefB(col, q) == IF args.tB THEN args.B[col * args.k + q] ELSE args.B[q * args.n + col]

RECURSIVE RefDot(_, _, _)
RefDot(row, col, q) ==
    IF q = 0 THEN 0 ELSE RefDot(row, col, q - 1) + RefA(row, q - 1) * RefB(col, q - 1)

\* A, B and C hold integers only.
IntegerInputs ==
    /\ \A i \in DOMAIN args.A : Finite(args.A[i])
    /\ \A i \in DOMAIN args.B : Finite(args.B[i])
    /\ \A i \in DOMAIN args.C : Finite(args.C[i])

\* C1: once every task of a grid covering the output has run, every element
\* C[row*n+col] is alpha * (sum over q of a(q)*b(q)) + beta * its initial value,
\* for every m, n, k, alpha, beta, both transpose flags and all integer
\* contents of A, B and C.
C1_Gemm ==
    AllDone /\ IntegerInputs =>
        \A row \in 0 .. args.m - 1, col \in 0 .. args.n - 1 :
            mem.C[row * args.n + col] =
                args.alpha * RefDot(row, col, args.k) + args.beta * args.C[row * args.n + col]

C1_Witness ==
    /\ AllDone
    /\ IntegerInputs
    /\ args.m = 2 /\ args.n = 2 /\ args.k = 2
    /\ args.tA /\ ~args.tB
    /\ args.alpha = 2 /\ args.beta = 1
    /\ \A i \in DOMAIN mem.C : mem.C[i] # args.C[i]

\* The outputs the four transpose configurations must give on the fixture.
C2_Outputs ==
    <<<<19, 22, 43, 50>>, <<26, 30, 38, 44>>, <<17, 23, 39, 53>>, <<23, 31, 34, 46>>>>

\* C2: on the fixture (m=n=k=2, alpha=1, beta=0, A=[[1,2],[3,4]], B=[[5,6],[7,8]],
\* C zeroed) the kernel's output in configuration (false,false), (true,false),
\* (false,true), (true,true) is [[19,22],[43,50]], [[26,30],[38,44]],
\* [[17,23],[39,53]], [[23,31],[34,46]]; every max difference is 0 and the
\* harness reports PASS.
C2_Fixture ==
    /\ hpc \in {"get", "compare"} =>
          /\ <<args.tA, args.tB>> = <<cfg \in {2, 4}, cfg \in {3, 4}>>
          /\ \A i \in 0 .. 3 : mem.C[i] = C2_Outputs[cfg][i + 1]
    /\ \A i \in 1 .. Len(diffs) : diffs[i] = 0
    /\ hpc = "end" =>
          /\ Len(diffs) = 4
          /\ out[Len(out)] = [line |-> "summary", cfg |-> 0, val |-> 1]

C2_Witness ==
    /\ hpc = "end"
    /\ Len(diffs) = 4
    /\ out[Len(out)].line = "summary"
    /\ out[Len(out)].val = 1

\* C3: a task whose row >= m or col >= n is skipped: it reads nothing and writes
\* nothing; no index outside 0 .. m*n-1 of C is ever written, and an element of C
\* changes only by the store of the in-range task it belongs to.
C3_OutOfRangeSkipped ==
    /\ \A t \in DOMAIN th :
          (Row(t) >= args.m \/ Col(t) >= args.n) =>
              /\ th[t] \in {Thread0, [Thread0 EXCEPT !.pc = "done"]}
              /\ rd[t] = {}
              /\ wr[t] = <<>>
    /\ \A t \in DOMAIN th : \A i \in Range(wr[t]) : i \in 0 .. args.m * args.n - 1
    /\ \A i \in DOMAIN mem.C :
          mem.C[i] # args.C[i] =>
              \E t \in Writers(i) : Row(t) < args.m /\ Col(t) < args.n

C3_Witness ==
    /\ AllDone
    /\ \E t \in DOMAIN th :
          /\ Col(t) >= args.n
          /\ Row(t) < args.m
          /\ Row(t) * args.n + Col(t) < args.m * args.n
          /\ mem.C[Row(t) * args.n + Col(t)] # args.C[Row(t) * args.n + Col(t)]

\* C4: the final C does not depend on the order or the interleaving of the
\* tasks: whatever the others have done, a task reads the initial value of its
\* element, and when all have run C is what running the tasks one after the
\* other, row by row, gives.
C4_OrderIndependent ==
    /\ \A t \in DOMAIN th :
          th[t].pc \in {"store", "done"} /\ Row(t) < args.m /\ Col(t) < args.n =>
              th[t].cold = args.C[Row(t) * args.n + Col(t)]
    /\ AllDone => mem.C = RunFrom(args.C, 0)

\* The last task has finished while the first has read its element and not yet
\* written it, and another one is still in its loop.
C4_Witness ==
    /\ args.m = 2 /\ args.n = 2 /\ args.beta # 0 /\ args.alpha # 0
    /\ \E t1, t2, t3 \in DOMAIN th :
          /\ Row(t1) = 1 /\ Col(t1) = 1 /\ th[t1].pc = "done"
          /\ Row(t2) = 0 /\ Col(t2) = 0 /\ th[t2].pc = "store"
          /\ Row(t3) = 0 /\ Col(t3) = 1 /\ th[t3].pc = "loop"
    /\ mem.C # args.C

\* C5 (the claim as stated): with alpha = 0 and beta # 0 the kernel leaves every
\* element equal to beta times its previous value, whatever A and B hold.
C5_BetaScaling ==
    AllDone /\ args.alpha = 0 /\ args.beta # 0 =>
        \A i \in 0 .. args.m * args.n - 1 : mem.C[i] = args.beta * args.C[i]

\* C5 (amended): with alpha = 0 and beta # 0 the kernel leaves every element
\* whose accumulated sum is finite equal to beta times its previous value; an
\* element whose sum is infinite or NaN becomes NaN (0 * infinity).
C5_BetaScalingFinite ==
    AllDone /\ args.alpha = 0 /\ args.beta # 0 =>
        \A t \in DOMAIN th :
            Row(t) < args.m /\ Col(t) < args.n =>
                LET own == Row(t) * args.n + Col(t)
                IN  mem.C[own] = IF Finite(th[t].sum) THEN args.beta * args.C[own] ELSE NaN

\* One element's sum is finite and not 0, another's is infinite.
C5_Witness ==
    /\ AllDone
    /\ args.alpha = 0
    /\ args.beta = 2
    /\ \E t \in DOMAIN th : Finite(th[t].sum) /\ th[t].sum # 0
    /\ \E t \in DOMAIN th : ~Finite(th[t].sum)
    /\ \E i \in DOMAIN mem.C : mem.C[i] = 2 * args.C[i] /\ mem.C[i] # 0

\* C6: an in-range task writes once, to its own element C[row*n+col]; it writes
\* and reads no other element of C; A and B are never written; when all tasks
\* have run every element of C has exactly one writer.
C6_Frame ==
    /\ \A t \in DOMAIN th :
          LET own == Row(t) * args.n + Col(t)
          IN  /\ Len(wr[t]) <= 1
              /\ Range(wr[t]) \subseteq {own}
              /\ rd[t] \subseteq {own}
              /\ th[t].pc = "done" /\ Row(t) < args.m /\ Col(t) < args.n =>
                    wr[t] = <<own>>
              /\ th[t].pc # "done" /\ Row(t) < args.m /\ Col(t) < args.n =>
                    mem.C[own] = args.C[own]
    /\ mem.A = args.A
    /\ mem.B = args.B
    /\ AllDone => \A i \in 0 .. args.m * args.n - 1 : Cardinality(Writers(i)) = 1

C6_Witness ==
    /\ AllDone
    /\ args.m = 2 /\ args.n = 2 /\ args.k = 1
    /\ \A i \in 0 .. 3 : Cardinality(Writers(i)) = 1 /\ mem.C[i] # args.C[i]

\* C7: the harness runs the four configurations and prints each one's max
\* difference before the verdict, whatever the earlier differences were; the
\* verdict is PASS exactly when all four differences are below 1e-4 (a
\* difference of 1e-4 fails).
C7_Report ==
    /\ hpc # "end" => ENABLED NextReport
    /\ hpc \in {"summary", "end"} => Len(diffs) = 4
    /\ \A c \in 1 .. 4 :
          Len(diffs) >= c =>
              \E j \in 1 .. Len(out) : out[j] = [line |-> "maxdiff", cfg |-> c, val |-> diffs[c]]
    /\ \A j \in 1 .. Len(out) :
          /\ out[j].line = "maxdiff" => out[j].cfg <= Len(diffs)
          /\ out[j].line = "summary" =>
                /\ j = Len(out)
                /\ hpc = "end"
                /\ \A c \in 1 .. 4 :
                      \E i \in 1 .. j - 1 : out[i].line = "maxdiff" /\ out[i].cfg = c
                /\ out[j].val = 1 <=> \A c \in 1 .. 4 : diffs[c] < Tol
                /\ out[j].val \in {0, 1}
    /\ hpc = "end" => out[Len(out)].line = "summary"

\* The first difference equals the tolerance, the others are 0: all four were
\* reported and the verdict is FAIL.
C7_Witness ==
    /\ hpc = "end"
    /\ diffs = <<Tol, 0, 0, 0>>
    /\ out[Len(out)] = [line |-> "summary", cfg |-> 0, val |-> 0]

\* C8 (the claim as stated): buffers whose lengths do not match m, n, k are
\* rejected before any task is launched: no task runs and C is unchanged.
C8_MismatchRejected ==
    ~Consistent(args) =>
        /\ \A t \in DOMAIN th : th[t].pc = "start"
        /\ mem.C = args.C

\* C9: the harness reads C back, and compares it, only after every task of the
\* launch has completed: every element it reads has been written by its task.
C9_BarrierBeforeReadBack ==
    /\ hpc \in {"get", "compare"} =>
          /\ AllDone
          /\ \A i \in 0 .. args.m * args.n - 1 : Writers(i) # {}
    /\ hpc = "compare" => Chost = [i \in DOMAIN mem.C |-> mem.C[i] * UnitsPerOne]

C9_Witness ==
    /\ hpc = "compare"
    /\ cfg = 4
    /\ \A i \in 0 .. 3 : Chost[i] # 0

\* The benchmark runs of cuda-mmm's driver: its steps after the build.
C10_BenchmarkRun(e) == e.drv = "cuda-mmm" /\ e.cmd \in {"smoke", "main"}

\* C10 (the claim as stated): in every driver, a non-zero exit code of a build
\* or run is raised to the caller with that exit code.
C10_EveryFailureRaised ==
    \A i \in 1 .. Len(ddone) :
        ddone[i].rc # 0 => dstatus = "raised" /\ derr.rc = ddone[i].rc

\* C10 (amended): a non-zero exit code is raised to the caller, carrying the
\* code, and ends the driver, except for the benchmark runs of cuda-mmm's
\* driver, whose exit codes are dropped: the driver goes on and returns
\* normally.  The flash-attention drivers print the run's code before they
\* raise.  The commands that ran before stay as they were.
C10_FailuresRaisedOrDropped ==
    /\ [](/\ \A i \in 1 .. Len(ddone) :
                ddone[i].rc # 0 /\ ~C10_BenchmarkRun(ddone[i]) =>
                    /\ i = Len(ddone)
                    /\ dstatus = "raised"
                    /\ derr.type \in {"CalledProcessError", "RuntimeError"}
                    /\ derr.rc = ddone[i].rc
                    /\ ddone[i].cmd = "run" /\ ddone[i].drv # "naive_gemm" =>
                          dlog # <<>> /\ dlog[Len(dlog)] = ddone[i].rc
          /\ dstatus = "raised" =>
                /\ ddone # <<>>
                /\ ddone[Len(ddone)].rc # 0
                /\ ~C10_BenchmarkRun(ddone[Len(ddone)])
          /\ dstatus = "returned" =>
                /\ Len(ddone) = Calls(drv) * Len(Steps(drv))
                /\ \A i \in 1 .. Len(ddone) : ddone[i].rc # 0 => C10_BenchmarkRun(ddone[i]))
    /\ [][\A i \in 1 .. Len(ddone) : Len(ddone') >= i /\ ddone'[i] = ddone[i]]_vars

\* The second call of a flash-attention driver fails in its run, after the
\* first call completed.
C10_Witness ==
    /\ drv = "flashattn2"
    /\ dstatus = "raised"
    /\ dcall = 2
    /\ derr = [type |-> "RuntimeError", rc |-> 2]
    /\ dlog = <<0, 2>>

=============================================================================
